---- MODULE Spec2Model ----
(***************************************************************************)
(* Model of generate_pdf.py: main() reads a Markdown file, renders it to   *)
(* HTML, parses the HTML, walks the allow-listed elements and issues       *)
(* drawing calls on an FPDF document, then writes the PDF and prints a     *)
(* confirmation.                                                           *)
(*                                                                         *)
(* Text is a sequence of chunks (strings); the chunks " " and "\n" are     *)
(* whitespace.  An HTML string is a sequence of markup tokens (start tag,  *)
(* end tag, character data).  A parsed tree is the sequence of its nodes   *)
(* in creation order, each with the index of its parent (0 = the soup).    *)
(***************************************************************************)
EXTENDS Integers, Sequences, FiniteSets

\* ---------------------------------------------------------------- bounds
MaxBlocks == 3      \* blocks in one Markdown input
MaxPages == 2       \* pages the builder may grow to by automatic page breaks

\* ------------------------------------------------------------- sequences
RECURSIVE Flatten(_)
Flatten(ss) == IF ss = <<>> THEN <<>> ELSE Head(ss) \o Flatten(Tail(ss))

Last(s) == s[Len(s)]

Front(s) == SubSeq(s, 1, Len(s) - 1)

\* --------------------------------------------------------------- strings
Whitespace == {" ", "\n"}

\* str.strip(): drop leading and trailing whitespace
RECURSIVE lstrip(_)
lstrip(t) == IF t # <<>> /\ Head(t) \in Whitespace THEN lstrip(Tail(t)) ELSE t

RECURSIVE rstrip(_)
rstrip(t) == IF t # <<>> /\ Last(t) \in Whitespace THEN rstrip(Front(t)) ELSE t

strip(t) == rstrip(lstrip(t))

\* ------------------------------------------------- Markdown input (blocks)
Plain(s) == [style |-> "plain", text |-> s]
Em(s) == [style |-> "em", text |-> s]
CodeSpan(s) == [style |-> "code", text |-> s]

Heading(n, spans) == [type |-> "heading", level |-> n, spans |-> spans, items |-> <<>>]
Para(spans) == [type |-> "para", level |-> 0, spans |-> spans, items |-> <<>>]
Fence(s) == [type |-> "fence", level |-> 0, spans |-> <<Plain(s)>>, items |-> <<>>]
Indented(s) == [type |-> "indented", level |-> 0, spans |-> <<Plain(s)>>, items |-> <<>>]
TightList(items) == [type |-> "tight_list", level |-> 0, spans |-> <<>>, items |-> items]
LooseList(items) == [type |-> "loose_list", level |-> 0, spans |-> <<>>, items |-> items]

\* the blocks an input file is made of
BlockPalette ==
    { Heading(1, <<Plain("Title")>>),
      Heading(2, <<Plain("Sub")>>),
      Heading(3, <<Plain("Sec")>>),
      Heading(4, <<Plain("Minor")>>),
      Para(<<Plain("Some text.")>>),
      TightList(<< <<Plain("item one")>>, <<Plain("item two")>> >>),
      LooseList(<< <<Plain("see "), Em("b"), Plain(" "), CodeSpan("d")>> >>),
      Fence("print(1)"),
      Indented("x = 1") }

RECURSIVE SeqsUpTo(_, _)
SeqsUpTo(S, n) ==
    IF n = 0 THEN {<<>>}
    ELSE LET shorter == SeqsUpTo(S, n - 1)
         IN shorter \cup {Append(s, x) : s \in shorter, x \in S}

MarkdownDocs == SeqsUpTo(BlockPalette, MaxBlocks)

\* what the input path can hold
InputFiles ==
    {[exists |-> FALSE, utf8 |-> FALSE, content |-> <<>>],
     [exists |-> TRUE, utf8 |-> FALSE, content |-> <<>>]}
    \cup {[exists |-> TRUE, utf8 |-> TRUE, content |-> d] : d \in MarkdownDocs}

\* ------------------------------------------------------------ HTML tokens
StartTag(n) == [kind |-> "start", name |-> n, text |-> <<>>]
EndTag(n) == [kind |-> "end", name |-> n, text |-> <<>>]
Data(t) == [kind |-> "data", name |-> "", text |-> t]

Wrap(n, inner) == <<StartTag(n)>> \o inner \o <<EndTag(n)>>

NL == <<Data(<<"\n">>)>>

\* -------------------------------------------- markdown.markdown (no extensions)
RenderSpan(sp) ==
    IF sp.style = "plain" THEN <<Data(<<sp.text>>)>>
    ELSE Wrap(sp.style, <<Data(<<sp.text>>)>>)

RenderSpans(spans) == Flatten([i \in 1..Len(spans) |-> RenderSpan(spans[i])])

HeadingTag(n) == <<"h1", "h2", "h3", "h4", "h5", "h6">>[n]

RenderItem(loose, spans) ==
    IF loose THEN Wrap("li", NL \o Wrap("p", RenderSpans(spans)) \o NL) \o NL
    ELSE Wrap("li", RenderSpans(spans)) \o NL

RenderItems(loose, items) ==
    Flatten([i \in 1..Len(items) |-> RenderItem(loose, items[i])])

\* A backtick fence is not a block construct without the fenced_code
\* extension: it is a paragraph holding one backtick code span, whose
\* content is stripped.  An indented block is <pre><code> with the text
\* followed by a newline.
RenderBlock(b) ==
    CASE b.type = "heading" -> Wrap(HeadingTag(b.level), RenderSpans(b.spans))
      [] b.type = "para" -> Wrap("p", RenderSpans(b.spans))
      [] b.type = "fence" -> Wrap("p", Wrap("code", <<Data(<<b.spans[1].text>>)>>))
      [] b.type = "indented" ->
            Wrap("pre", Wrap("code", <<Data(<<b.spans[1].text, "\n">>)>>))
      [] b.type = "tight_list" -> Wrap("ul", NL \o RenderItems(FALSE, b.items))
      [] b.type = "loose_list" -> Wrap("ul", NL \o RenderItems(TRUE, b.items))

convert_markdown_to_html(markdown_content) ==
    IF markdown_content = <<>> THEN <<>>
    ELSE RenderBlock(markdown_content[1])
         \o Flatten([i \in 1..(Len(markdown_content) - 1) |->
                        NL \o RenderBlock(markdown_content[i + 1])])

\* ------------------------------------- BeautifulSoup(html, 'html.parser')
Top(stack) == IF stack = <<>> THEN 0 ELSE Last(stack)

\* positions of the open tags named n, innermost last
OpenNamed(nodes, stack, n) == {k \in 1..Len(stack) : nodes[stack[k]].name = n}

Max(S) == CHOOSE x \in S : \A y \in S : y <= x

\* an end tag closes the innermost open tag of that name and everything
\* opened inside it; an end tag that matches nothing is ignored
PopToTag(nodes, stack, n) ==
    IF OpenNamed(nodes, stack, n) = {} THEN stack
    ELSE SubSeq(stack, 1, Max(OpenNamed(nodes, stack, n)) - 1)

RECURSIVE Feed(_, _, _, _)
Feed(tokens, i, nodes, stack) ==
    IF i > Len(tokens) THEN nodes
    ELSE LET t == tokens[i]
         IN CASE t.kind = "start" ->
                   Feed(tokens, i + 1,
                        Append(nodes, [name |-> t.name, parent |-> Top(stack),
                                       text |-> <<>>]),
                        Append(stack, Len(nodes) + 1))
              [] t.kind = "end" ->
                   Feed(tokens, i + 1, nodes, PopToTag(nodes, stack, t.name))
              [] t.kind = "data" ->
                   \* adjacent character data is one string node
                   IF i > 1 /\ tokens[i - 1].kind = "data"
                   THEN Feed(tokens, i + 1,
                             [nodes EXCEPT ![Len(nodes)].text = @ \o t.text],
                             stack)
                   ELSE Feed(tokens, i + 1,
                             Append(nodes, [name |-> "", parent |-> Top(stack),
                                            text |-> t.text]),
                             stack)

BeautifulSoup(html_content) == Feed(html_content, 1, <<>>, <<>>)

\* ----------------------------------------------- find_all and get_text
AllowList == <<"h1", "h2", "h3", "p", "li", "code", "pre">>

Range(s) == {s[i] : i \in DOMAIN s}

Indices(s) == [i \in 1..Len(s) |-> i]

\* find_all that looks at the top-level tags only (recursive=False)
find_all_toplevel(soup, names) ==
    SelectSeq(Indices(soup),
              LAMBDA i : soup[i].name \in Range(names) /\ soup[i].parent = 0)

\* the tags, in the order the parser created them, whose name is listed
find_all(soup, names) ==
    SelectSeq(Indices(soup), LAMBDA i : soup[i].name \in Range(names))

RECURSIVE IsDescendant(_, _, _)
IsDescendant(soup, j, i) ==
    /\ soup[j].parent # 0
    /\ \/ soup[j].parent = i
       \/ IsDescendant(soup, soup[j].parent, i)

\* get_text that runs on past the end of the element (every later string)
get_text_following(soup, i) ==
    LET strings == SelectSeq(Indices(soup), LAMBDA j : soup[j].name = "" /\ j > i)
    IN Flatten([k \in 1..Len(strings) |-> soup[strings[k]].text])

\* the strings below element i, concatenated in document order
get_text(soup, i) ==
    LET strings == SelectSeq(Indices(soup),
                             LAMBDA j : soup[j].name = "" /\ IsDescendant(soup, j, i))
    IN Flatten([k \in 1..Len(strings) |-> soup[strings[k]].text])

\* ---------------------------------------- the if/elif chain of create_pdf
\* the chain with 'pre' left out of the last test
Branch_without_pre(name) ==
    IF name \in {"h1", "h2", "h3"} THEN "header"
    ELSE IF name = "p" THEN "paragraph"
    ELSE IF name = "li" THEN "list_item"
    ELSE IF name = "code" THEN "code"
    ELSE "none"

Branch(name) ==
    IF name \in {"h1", "h2", "h3"} THEN "header"
    ELSE IF name = "p" THEN "paragraph"
    ELSE IF name = "li" THEN "list_item"
    ELSE IF name \in {"code", "pre"} THEN "code"
    ELSE "none"

\* the header sizes with the conditional one level short
FontSize_two_levels(name) ==
    CASE Branch(name) = "header" -> (IF name = "h1" THEN 16 ELSE 12)
      [] Branch(name) = "paragraph" -> 12
      [] Branch(name) = "list_item" -> 12
      [] Branch(name) = "code" -> 10

FontSize(name) ==
    CASE Branch(name) = "header" ->
            (IF name = "h1" THEN 16 ELSE IF name = "h2" THEN 14 ELSE 12)
      [] Branch(name) = "paragraph" -> 12
      [] Branch(name) = "list_item" -> 12
      [] Branch(name) = "code" -> 10

\* the paragraph spacing copied from the header branch
LineBreak_copied(name) ==
    CASE Branch(name) = "header" -> 10
      [] Branch(name) = "paragraph" -> 10
      [] Branch(name) = "list_item" -> 2
      [] Branch(name) = "code" -> 5

LineBreak(name) ==
    CASE Branch(name) = "header" -> 10
      [] Branch(name) = "paragraph" -> 5
      [] Branch(name) = "list_item" -> 2
      [] Branch(name) = "code" -> 5

CellHeight(name) == IF Branch(name) = "code" THEN 8 ELSE 10

FontFamily == "DejaVu"

\* the string literal passed to pdf.cell (one text chunk)
Bullet == <<"bullet-glyph">>

\* the next position of the loop, from i on, whose element some branch takes
RECURSIVE NextHandled(_, _, _)
NextHandled(soup, elements, i) ==
    IF i > Len(elements) THEN i
    ELSE IF Branch(soup[elements[i]].name) # "none" THEN i
    ELSE NextHandled(soup, elements, i + 1)

\* ------------------------------------------------------------------ state
VARIABLES
    pc,                 \* the statement main() / create_pdf() runs next
    input_file,         \* what the input path holds
    markdown_content,   \* main: result of read_markdown_file
    html_content,       \* main: result of convert_markdown_to_html
    soup,               \* create_pdf: the parsed tree
    elements,           \* create_pdf: the result of soup.find_all(...)
    idx,                \* create_pdf: position of the for loop in elements
    constructions,      \* number of PDF() objects built
    font_family,        \* pdf: current font family ("" = none set)
    font_size,          \* pdf: current font size
    pages,              \* pdf: number of pages
    calls,              \* the drawing calls made on pdf, in order
    output_file,        \* what the output path holds
    stdout,             \* the lines printed
    error               \* the exception that ended the run ("" = none)

vars == <<pc, input_file, markdown_content, html_content, soup, elements, idx,
          constructions, font_family, font_size, pages, calls, output_file,
          stdout, error>>

main_vars == <<input_file, markdown_content, html_content, stdout>>

walk_vars == <<soup, elements, idx>>

pdf_vars == <<constructions, font_family, font_size, pages, calls>>

NoFile == [exists |-> FALSE, writes |-> 0, pages |-> 0, calls |-> <<>>]

Init ==
    /\ pc = "read_markdown_file"
    /\ input_file \in InputFiles
    /\ markdown_content = <<>>
    /\ html_content = <<>>
    /\ soup = <<>>
    /\ elements = <<>>
    /\ idx = 0
    /\ constructions = 0
    /\ font_family = ""
    /\ font_size = 0
    /\ pages = 0
    /\ calls = <<>>
    /\ output_file = NoFile
    /\ stdout = <<>>
    /\ error = ""

\* an uncaught exception ends the process
Raise(e) ==
    /\ pc' = "aborted"
    /\ error' = e

\* the element the loop is at
Element == elements[idx]

Name == soup[Element].name

\* one call on pdf, with the font in force when it is made
Call(op, family, size, w, h, txt, el) ==
    [op |-> op, family |-> family, size |-> size,
     w |-> w, h |-> h, txt |-> txt, elem |-> el]

\* each of n cell / multi_cell calls breaks to a new page when its text
\* does not fit on the current one
PageBreaks(n) == pages' \in {p \in pages..(pages + n) : p <= MaxPages}

\* ------------------------------------------------------------------ main
\* a reader that returns an empty text for a missing or undecodable file
ReadMarkdownFile_lenient ==
    /\ pc = "read_markdown_file"
    /\ markdown_content' = IF input_file.exists /\ input_file.utf8
                           THEN input_file.content ELSE <<>>
    /\ pc' = "convert_markdown_to_html"
    /\ UNCHANGED <<input_file, html_content, stdout, output_file, error>>
    /\ UNCHANGED <<walk_vars, pdf_vars>>

\* line 61: markdown_content = read_markdown_file(input_file)
ReadMarkdownFile ==
    /\ pc = "read_markdown_file"
    /\ IF ~input_file.exists
       THEN Raise("FileNotFoundError") /\ UNCHANGED markdown_content
       ELSE IF ~input_file.utf8
       THEN Raise("UnicodeDecodeError") /\ UNCHANGED markdown_content
       ELSE /\ markdown_content' = input_file.content
            /\ pc' = "convert_markdown_to_html"
            /\ UNCHANGED error
    /\ UNCHANGED <<input_file, html_content, stdout, output_file>>
    /\ UNCHANGED <<walk_vars, pdf_vars>>

\* line 64: html_content = convert_markdown_to_html(markdown_content)
ConvertMarkdownToHtml ==
    /\ pc = "convert_markdown_to_html"
    /\ html_content' = convert_markdown_to_html(markdown_content)
    /\ pc' = "PDF"
    /\ UNCHANGED <<input_file, markdown_content, stdout, output_file, error>>
    /\ UNCHANGED <<walk_vars, pdf_vars>>

\* ------------------------------------------------------------ create_pdf
\* line 19: pdf = PDF(); the constructor loads the font file
ConstructPDF ==
    /\ pc = "PDF"
    /\ constructions' = constructions + 1
    /\ \/ pc' = "add_page" /\ UNCHANGED error
       \/ Raise("FontLoadError")
    /\ UNCHANGED <<font_family, font_size, pages, calls>>
    /\ UNCHANGED <<main_vars, walk_vars, output_file>>

\* line 20: pdf.add_page()
AddPage ==
    /\ pc = "add_page"
    /\ pages' = pages + 1
    /\ calls' = Append(calls, Call("add_page", font_family, font_size, 0, 0, <<>>, 0))
    /\ pc' = "set_font"
    /\ UNCHANGED <<constructions, font_family, font_size>>
    /\ UNCHANGED <<main_vars, walk_vars, output_file, error>>

\* line 23: pdf.set_font('DejaVu', size=12)
SetFont ==
    /\ pc = "set_font"
    /\ font_family' = FontFamily
    /\ font_size' = 12
    /\ calls' = Append(calls, Call("set_font", FontFamily, 12, 0, 0, <<>>, 0))
    /\ pc' = "find_all"
    /\ UNCHANGED <<constructions, pages>>
    /\ UNCHANGED <<main_vars, walk_vars, output_file, error>>

\* a loop that stops one element early
LoopAt_short(i) ==
    /\ idx' = i
    /\ pc' = IF i >= Len(elements') THEN "output" ELSE "element_set_font"

\* after a body, or at loop entry, with the loop at position i
LoopAt(i) ==
    /\ idx' = i
    /\ pc' = IF i > Len(elements') THEN "output" ELSE "for"

\* lines 26, 29: soup = BeautifulSoup(...); for element in soup.find_all([...])
FindAll ==
    /\ pc = "find_all"
    /\ soup' = BeautifulSoup(html_content)
    /\ elements' = find_all(soup', AllowList)
    /\ LoopAt(NextHandled(soup', elements', 1))
    /\ UNCHANGED <<main_vars, pdf_vars, output_file, error>>

\* a body that draws the bullet for every element
Body_bullet_everywhere(el, name, txt) ==
    <<Call("set_font", FontFamily, FontSize(name), 0, 0, <<>>, el),
      Call("ln", FontFamily, FontSize(name), 0, LineBreak(name), <<>>, el),
      Call("cell", FontFamily, FontSize(name), 5, 10, Bullet, el),
      Call("multi_cell", FontFamily, FontSize(name), 0, CellHeight(name), txt, el)>>

\* code set in another family
Body_courier(el, name, txt) ==
    LET family == IF Branch(name) = "code" THEN "Courier" ELSE FontFamily
    IN <<Call("set_font", family, FontSize(name), 0, 0, <<>>, el),
         Call("ln", family, FontSize(name), 0, LineBreak(name), <<>>, el)>>
       \o (IF Branch(name) = "list_item"
           THEN <<Call("cell", family, FontSize(name), 5, 10, Bullet, el)>>
           ELSE <<>>)
       \o <<Call("multi_cell", family, FontSize(name), 0, CellHeight(name), txt, el)>>

\* lines 30-50: the calls the branch taken for element el makes, in order:
\* set_font, ln, (cell for a list item,) multi_cell
Body(el, name, txt) ==
    <<Call("set_font", FontFamily, FontSize(name), 0, 0, <<>>, el),
      Call("ln", FontFamily, FontSize(name), 0, LineBreak(name), <<>>, el)>>
    \o (IF Branch(name) = "list_item"
        THEN <<Call("cell", FontFamily, FontSize(name), 5, 10, Bullet, el)>>
        ELSE <<>>)
    \o <<Call("multi_cell", FontFamily, FontSize(name), 0, CellHeight(name), txt, el)>>

\* lines 29-50: one pass of the loop body
ProcessElement ==
    /\ pc = "for"
    /\ LET body == Body(Element, Name, strip(get_text(soup, Element)))
       IN /\ calls' = calls \o body
          /\ font_family' = Last(body).family
          /\ font_size' = Last(body).size
          /\ PageBreaks(Len(body) - 2)
    /\ UNCHANGED <<soup, elements>>
    /\ LoopAt(NextHandled(soup, elements, idx + 1))
    /\ UNCHANGED constructions
    /\ UNCHANGED <<main_vars, output_file, error>>

\* line 53: pdf.output(output_path)
Output ==
    /\ pc = "output"
    /\ \/ /\ output_file' = [exists |-> TRUE, writes |-> output_file.writes + 1,
                             pages |-> pages, calls |-> calls]
          /\ pc' = "print"
          /\ UNCHANGED error
       \/ Raise("RenderError") /\ UNCHANGED output_file
    /\ UNCHANGED <<main_vars, walk_vars, pdf_vars>>

\* line 68: print(f"PDF generated successfully: {output_file}")
PrintConfirmation ==
    /\ pc = "print"
    /\ stdout' = Append(stdout, "PDF generated successfully: project_description.pdf")
    /\ pc' = "done"
    /\ UNCHANGED <<input_file, markdown_content, html_content, output_file, error>>
    /\ UNCHANGED <<walk_vars, pdf_vars>>

Next ==
    \/ ReadMarkdownFile
    \/ ConvertMarkdownToHtml
    \/ ConstructPDF
    \/ AddPage
    \/ SetFont
    \/ FindAll
    \/ ProcessElement
    \/ Output
    \/ PrintConfirmation

Spec == Init /\ [][Next]_vars

\* ============================================================ properties
\* the text blocks written so far (one multi_cell call each)
TextBlocks == SelectSeq(calls, LAMBDA c : c.op = "multi_cell")

Allowed == {"h1", "h2", "h3", "p", "li", "code", "pre"}

\* the tags of the tree whose name is allow-listed
AllowedTags == {i \in 1..Len(soup) : soup[i].name \in Allowed}

\* the for loop has consumed every element
LoopDone ==
    \/ pc \in {"output", "print", "done"}
    \/ pc = "aborted" /\ error = "RenderError"

\* position of node i in the tree: child ranks from the root down
RECURSIVE Path(_)
Path(i) ==
    IF i = 0 THEN <<>>
    ELSE Append(Path(soup[i].parent),
                Cardinality({j \in 1..i : soup[j].parent = soup[i].parent}))

\* depth-first, left-to-right: an ancestor before its descendants, an
\* earlier sibling's subtree before a later sibling's
RECURSIVE DocBefore(_, _)
DocBefore(p, q) ==
    IF p = <<>> THEN q # <<>>
    ELSE IF q = <<>> THEN FALSE
    ELSE IF Head(p) # Head(q) THEN Head(p) < Head(q)
    ELSE DocBefore(Tail(p), Tail(q))

\* the names of the allow-listed start tags, as they occur in the markup
StartTagNames ==
    LET starts == SelectSeq(html_content,
                            LAMBDA t : t.kind = "start" /\ t.name \in Allowed)
    IN [k \in 1..Len(starts) |-> starts[k].name]

\* the tags node i lies in, from its parent up to the top
RECURSIVE Ancestors(_)
Ancestors(i) ==
    IF soup[i].parent = 0 THEN {}
    ELSE {soup[i].parent} \cup Ancestors(soup[i].parent)

\* C1: the emitted text blocks are the allow-listed elements of the tree in
\* document order (depth-first, left-to-right): consecutive blocks are in
\* strictly increasing document order (so none is reordered or repeated),
\* every block is an allow-listed element, and once the loop is over every
\* allow-listed element has its block and the block tags follow the order
\* of the start tags in the markup.
C1_DocumentOrder ==
    LET b == TextBlocks
    IN /\ \A k \in 1..Len(b) : b[k].elem \in AllowedTags
       /\ \A k \in 1..(Len(b) - 1) : DocBefore(Path(b[k].elem), Path(b[k + 1].elem))
       /\ LoopDone =>
            /\ {b[k].elem : k \in 1..Len(b)} = AllowedTags
            /\ [k \in 1..Len(b) |-> soup[b[k].elem].name] = StartTagNames

\* a finished walk over a tree with nested and sibling allow-listed elements
C1_Witness ==
    /\ pc = "done"
    /\ Len(TextBlocks) >= 4
    /\ \E a, c \in AllowedTags : IsDescendant(soup, c, a)
    /\ \E i \in 1..Len(soup) : soup[i].name = "h4"

\* C2: for an input whose only content is one code fence holding print(1),
\* exactly one block is a code element, its text is print(1), it is written
\* at size 10, and no other block carries that text.
C2_FenceCapturedOnce ==
    (pc = "done" /\ markdown_content = <<Fence("print(1)")>>) =>
        LET b == TextBlocks
            code == {k \in 1..Len(b) : soup[b[k].elem].name \in {"code", "pre"}}
        IN /\ Cardinality(code) = 1
           /\ \A k \in code : b[k].txt = <<"print(1)">> /\ b[k].size = 10
           /\ \A k \in (1..Len(b)) \ code : b[k].txt # <<"print(1)">>

\* the chunks of a text that are not whitespace
Visible(t) == {t[k] : k \in 1..Len(t)} \ Whitespace

\* the strings of the tree that hold visible text
VisibleStrings ==
    {j \in 1..Len(soup) : soup[j].name = "" /\ Visible(soup[j].text) # {}}

\* C3: every block comes from an allow-listed element; a string with no
\* allow-listed ancestor is in no block; a string under a tag that is not
\* allow-listed (em, ul) is in the output only through the block of an
\* allow-listed ancestor, which carries it.
C3_AllowListOnly ==
    LET b == TextBlocks
        written == [k \in 1..Len(b) |-> Visible(b[k].txt)]
    IN /\ \A k \in 1..Len(b) : soup[b[k].elem].name \in Allowed
       /\ \A j \in VisibleStrings :
            LET above == Ancestors(j)
                text == Visible(soup[j].text)
            IN \A k \in 1..Len(b) :
                 /\ text \cap written[k] # {} => above \cap AllowedTags # {}
                 /\ b[k].elem \in above => text \subseteq written[k]

\* a finished run whose tree has a heading outside the allow-list, and an em
\* span whose text went out in its paragraph's block
C3_Witness ==
    /\ pc = "done"
    /\ \E j \in 1..Len(soup) :
         /\ soup[j].name = ""
         /\ soup[j].parent # 0
         /\ soup[soup[j].parent].name = "h4"
         /\ Visible(soup[j].text) # {}
    /\ \E j \in 1..Len(soup), k \in 1..Len(TextBlocks) :
         /\ soup[j].name = ""
         /\ soup[j].parent # 0
         /\ soup[soup[j].parent].name = "em"
         /\ Visible(soup[j].text) \subseteq Visible(TextBlocks[k].txt)

\* the size table of the emitter contract
SizeOfKind ==
    [n \in Allowed |->
        CASE n = "h1" -> 16
          [] n = "h2" -> 14
          [] n \in {"h3", "p", "li"} -> 12
          [] n \in {"code", "pre"} -> 10]

\* C4: the font size in force when a block is written is the size of its
\* element's kind, whatever was processed before; so H1 > H2 > H3.
C4_SizeByKind ==
    LET b == TextBlocks
    IN /\ \A k \in 1..Len(b) : b[k].size = SizeOfKind[soup[b[k].elem].name]
       /\ {"h1", "h2", "h3"} \subseteq {soup[b[k].elem].name : k \in 1..Len(b)} =>
            \A i, j \in 1..Len(b) :
                (<<soup[b[i].elem].name, soup[b[j].elem].name>>
                    \in {<<"h1", "h2">>, <<"h2", "h3">>})
                => b[i].size > b[j].size

\* a finished run that wrote an h3, an h2 and an h1, the h1 last
C4_Witness ==
    LET b == TextBlocks
    IN /\ pc = "done"
       /\ Len(b) = 3
       /\ soup[b[1].elem].name = "h3"
       /\ soup[b[2].elem].name = "h2"
       /\ soup[b[3].elem].name = "h1"

\* the spacing table of the emitter contract
SpacingOfKind ==
    [n \in Allowed |->
        CASE n \in {"h1", "h2", "h3"} -> 10
          [] n = "p" -> 5
          [] n = "li" -> 2
          [] n \in {"code", "pre"} -> 5]

\* C5: for every consumed element the calls are set font, then spacing, then
\* the text block; the spacing is 10 for a heading, 5 for a paragraph, 2 for
\* a list item and 5 for code, and it comes right before the text block,
\* with only a list item's bullet cell in between.
C5_FontSpacingText ==
    \A k \in 1..Len(calls) :
        calls[k].op = "multi_cell" =>
            LET e == calls[k].elem
                n == soup[e].name
                s == IF n = "li" THEN k - 2 ELSE k - 1
            IN /\ s >= 2
               /\ n = "li" => calls[k - 1].op = "cell" /\ calls[k - 1].elem = e
               /\ calls[s].op = "ln"
               /\ calls[s].elem = e
               /\ calls[s].h = SpacingOfKind[n]
               /\ calls[s - 1].op = "set_font"
               /\ calls[s - 1].elem = e

\* a finished run that wrote a heading, a paragraph, a list item and code
C5_Witness ==
    /\ pc = "done"
    /\ \A br \in {"header", "paragraph", "list_item", "code"} :
         \E k \in 1..Len(TextBlocks) : Branch(soup[TextBlocks[k].elem].name) = br

\* C6: a bullet cell is drawn exactly for list items: each bullet cell has
\* width 5, belongs to an li, follows that item's spacing and is followed by
\* that item's text block; each li text block has exactly one bullet cell
\* right before it; no other element has a bullet cell.
C6_BulletIffListItem ==
    /\ \A k \in 1..Len(calls) :
         calls[k].op = "cell" =>
            /\ soup[calls[k].elem].name = "li"
            /\ calls[k].w = 5
            /\ calls[k].txt = Bullet
            /\ k >= 2 /\ calls[k - 1].op = "ln" /\ calls[k - 1].elem = calls[k].elem
            /\ k < Len(calls) =>
                 calls[k + 1].op = "multi_cell" /\ calls[k + 1].elem = calls[k].elem
    /\ \A k \in 1..Len(calls) :
         calls[k].op = "multi_cell" =>
            LET e == calls[k].elem
                bullets == {m \in 1..Len(calls) : calls[m].op = "cell" /\ calls[m].elem = e}
            IN IF soup[e].name = "li" THEN bullets = {k - 1} ELSE bullets = {}

\* a finished run with two list items and a paragraph
C6_Witness ==
    /\ pc = "done"
    /\ Cardinality({k \in 1..Len(calls) : calls[k].op = "cell"}) >= 2
    /\ \E k \in 1..Len(TextBlocks) : soup[TextBlocks[k].elem].name = "p"

\* C7: a successful run builds one document and writes the output once, with
\* at least one page; the one add_page call is the first call on the
\* document, before any element (also when there is none); the file is
\* written after the last element was consumed and holds every call made:
\* nothing is drawn after the write.
C7_OneDocumentOneWrite ==
    /\ constructions <= 1
    /\ output_file.writes <= 1
    /\ calls # <<>> =>
         /\ calls[1].op = "add_page"
         /\ \A k \in 2..Len(calls) : calls[k].op # "add_page"
    /\ output_file.exists =>
         /\ pc \in {"print", "done"}
         /\ output_file.writes = 1
         /\ constructions = 1
         /\ output_file.pages >= 1
         /\ output_file.pages = pages
         /\ output_file.calls = calls
         /\ \A i \in 1..Len(elements) :
              \E k \in 1..Len(output_file.calls) :
                 output_file.calls[k].op = "multi_cell"
                 /\ output_file.calls[k].elem = elements[i]
    /\ pc = "done" => output_file.exists

\* a finished run over several elements that broke to a second page
C7_Witness ==
    /\ pc = "done"
    /\ output_file.writes = 1
    /\ Len(elements) >= 2
    /\ output_file.pages = 2

\* C8: a failure ends the run at once and leaves no output: a missing or
\* undecodable input, or a font that cannot be loaded, stops every later
\* stage (nothing converted, built or drawn after it), the output path is
\* untouched and nothing is printed; the confirmation is printed only when
\* the output file has been written.
C8_FailureLeavesNoOutput ==
    /\ error # "" => pc = "aborted" /\ stdout = <<>>
    /\ pc = "aborted" => error # ""
    /\ error \in {"FileNotFoundError", "UnicodeDecodeError", "FontLoadError"} =>
         /\ output_file = NoFile
         /\ calls = <<>>
         /\ pages = 0
         /\ soup = <<>> /\ elements = <<>>
    /\ error \in {"FileNotFoundError", "UnicodeDecodeError"} =>
         /\ constructions = 0
         /\ markdown_content = <<>>
         /\ html_content = <<>>
    /\ (~input_file.exists \/ ~input_file.utf8) =>
         /\ output_file = NoFile
         /\ stdout = <<>>
         /\ constructions = 0
         /\ pc \in {"read_markdown_file", "aborted"}
    /\ stdout # <<>> => output_file.exists /\ output_file.writes = 1 /\ Len(stdout) = 1

\* a run ended by the missing input file
C8_Witness == pc = "aborted" /\ error = "FileNotFoundError" /\ ~input_file.exists

\* the set-font calls of the run
SetFontCalls == SelectSeq(calls, LAMBDA c : c.op = "set_font")

SelectedSizes == {SetFontCalls[k].size : k \in 1..Len(SetFontCalls)}

\* the sizes the emitter can select: the initial one and one per element kind
SizeTiers == {12} \cup {FontSize(n) : n \in Allowed}

\* C9 as stated: one family in every set-font call, and five distinct sizes
\* once a run has selected every size the emitter can select.
C9_FiveTiers ==
    /\ \A k \in 1..Len(SetFontCalls) : SetFontCalls[k].family = FontFamily
    /\ (pc = "done" /\ SelectedSizes = SizeTiers) => Cardinality(SelectedSizes) = 5

\* C9 amended: one family in every set-font call and every drawing call, and
\* the sizes selected are among four distinct values, 16, 14, 12 and 10.
C9_FourTiers ==
    /\ \A k \in 1..Len(calls) :
         calls[k].op # "add_page" => calls[k].family = "DejaVu"
    /\ SelectedSizes \subseteq {16, 14, 12, 10}
    /\ SizeTiers = {16, 14, 12, 10}
    /\ (pc = "done" /\ SelectedSizes = SizeTiers) => Cardinality(SelectedSizes) = 4

\* a finished run that selected every size, code included
C9_Witness ==
    /\ pc = "done"
    /\ SelectedSizes = SizeTiers
    /\ \E k \in 1..Len(SetFontCalls) :
         SetFontCalls[k].elem # 0 /\ soup[SetFontCalls[k].elem].name = "code"

\* the text of a subtree: a string's own text, a tag's children left to right
RECURSIVE SubtreeText(_)
SubtreeText(i) ==
    IF soup[i].name = "" THEN soup[i].text
    ELSE LET kids == SelectSeq([k \in 1..(Len(soup) - i) |-> i + k],
                               LAMBDA j : soup[j].parent = i)
         IN Flatten([k \in 1..Len(kids) |-> SubtreeText(kids[k])])

\* C10: there is one block per allow-listed element at every depth, each
\* with the stripped flattened text of its subtree; an allow-listed element
\* inside another gets its own block after its ancestor's, so its text is in
\* the ancestor's block and again in its own.
C10_NestedElementsRepeat ==
    LET b == TextBlocks
    IN /\ \A k \in 1..Len(b) :
            /\ b[k].elem \in AllowedTags
            /\ b[k].txt = strip(SubtreeText(b[k].elem))
       /\ \A m \in 1..Len(b) :
            \A k \in 1..Len(b) :
                b[k].elem \in Ancestors(b[m].elem) =>
                    /\ k < m
                    /\ Visible(b[m].txt) # {}
                    /\ Visible(b[m].txt) \subseteq Visible(b[k].txt)
       /\ Cardinality({b[k].elem : k \in 1..Len(b)}) = Len(b)
       /\ LoopDone => Len(b) = Cardinality(AllowedTags)

\* a finished run with inline code in a paragraph in a list item, and code
\* in pre
C10_Witness ==
    LET b == TextBlocks
    IN /\ pc = "done"
       /\ \E k, m, n \in 1..Len(b) :
            /\ soup[b[k].elem].name = "li"
            /\ soup[b[m].elem].name = "p"
            /\ soup[b[n].elem].name = "code"
            /\ IsDescendant(soup, b[m].elem, b[k].elem)
            /\ IsDescendant(soup, b[n].elem, b[m].elem)
       /\ \E k, m \in 1..Len(b) :
            /\ soup[b[k].elem].name = "pre"
            /\ soup[b[m].elem].name = "code"
            /\ IsDescendant(soup, b[m].elem, b[k].elem)

====
